---- MODULE Spec2Model ----
(***************************************************************************)
(* NodeScheduler: the job scheduling decision engine (scheduleJobs), the   *)
(* report pipeline of one firing (jobTask, processData) and the delivery   *)
(* retry protocol (sendWhatsAppMessage), in the three variants kept in the *)
(* repository: unnamed/part_000 (PDF, jobConfig module), scheduler.mjs     *)
(* (JPEG, jobConfig.csv) and scheduler.js (no retry).                      *)
(*                                                                         *)
(* Time: `now` is in seconds after local midnight of the startup day,      *)
(* `clock` in whole minutes after that midnight (timers fire on minute     *)
(* boundaries), backoff delays in milliseconds as in the code.             *)
(***************************************************************************)
EXTENDS Integers, Sequences, FiniteSets, TLC

VARIABLES variant, MAX_RETRIES, ignoreFrequency, runJobPassed, jobConfig, now,
          results, idx, proc, activated, timers, clock, firings, file

vars == <<variant, MAX_RETRIES, ignoreFrequency, runJobPassed, jobConfig, now,
          results, idx, proc, activated, timers, clock, firings, file>>

\* What the process is started with: the variant, the environment settings,
\* the job registry, the startup time, and the results the query API holds.
config == <<variant, MAX_RETRIES, ignoreFrequency, runJobPassed, jobConfig, now,
            results>>

(***************************************************************************)
(* Bounds of the model.                                                    *)
(***************************************************************************)
MaxJobs == 2

MaxRetryCount == 3

MaxFirings == 2

(***************************************************************************)
(* JavaScript values: undefined, NaN, a number, a string (a sequence of    *)
(* one-character strings).                                                 *)
(***************************************************************************)
Undefined == [t |-> "undefined", n |-> 0, s |-> <<>>]

NaN == [t |-> "nan", n |-> 0, s |-> <<>>]

Num(k) == [t |-> "number", n |-> k, s |-> <<>>]

Str(chars) == [t |-> "string", n |-> 0, s |-> chars]

DigitChars == <<"0", "1", "2", "3", "4", "5", "6", "7", "8", "9">>

IsDigit(c) == \E d \in 1..10 : DigitChars[d] = c

DigitVal(c) == (CHOOSE d \in 1..10 : DigitChars[d] = c) - 1

RECURSIVE DecimalValue(_)
DecimalValue(chars) ==
  IF chars = <<>> THEN 0
  ELSE 10 * DecimalValue(SubSeq(chars, 1, Len(chars) - 1)) + DigitVal(chars[Len(chars)])

\* Number(x): the empty string is 0, a string of digits its decimal value,
\* any other string and undefined are NaN.
Number(v) ==
  CASE v.t = "number" -> v
    [] v.t = "string" ->
         IF \A i \in 1..Len(v.s) : IsDigit(v.s[i]) THEN Num(DecimalValue(v.s)) ELSE NaN
    [] OTHER -> NaN

\* `${x}` of a non-negative number: its decimal digits.
RECURSIVE DecimalDigits(_)
DecimalDigits(k) ==
  IF k < 10 THEN <<DigitChars[k + 1]>>
  ELSE DecimalDigits(k \div 10) \o <<DigitChars[(k % 10) + 1]>>

\* `${x}` inside a template literal.
TemplateText(v) ==
  CASE v.t = "number" -> DecimalDigits(v.n)
    [] v.t = "string" -> v.s
    [] v.t = "nan" -> <<"N", "a", "N">>
    [] OTHER -> <<"u", "n", "d", "e", "f", "i", "n", "e", "d">>

\* The truthiness `x && ...` tests: undefined, NaN, 0 and '' are falsy.
Truthy(v) ==
  CASE v.t = "number" -> v.n # 0
    [] v.t = "string" -> v.s # <<>>
    [] OTHER -> FALSE

\* a >= b with b a number: a is converted with Number; NaN compares false.
GreaterEq(a, b) == Number(a).t = "number" /\ Number(a).n >= b

\* str.split(sep)
RECURSIVE split(_, _)
split(chars, sep) ==
  IF \A i \in 1..Len(chars) : chars[i] # sep THEN <<chars>>
  ELSE LET i == CHOOSE k \in 1..Len(chars) :
                  chars[k] = sep /\ \A m \in 1..(k - 1) : chars[m] # sep
       IN <<SubSeq(chars, 1, i - 1)>> \o split(SubSeq(chars, i + 1, Len(chars)), sep)

\* const [hour, minute] = jobTimes.split(':').map(Number): element i of the
\* mapped array, undefined past its end.
Destructure(fields, i) == IF i <= Len(fields) THEN Number(Str(fields[i])) ELSE Undefined

\* new Date(y, m, d, hour, minute) as seconds after today's midnight; hours
\* and minutes out of range roll over, a non-number makes an Invalid Date.
jobTimeOf(hour, minute) ==
  IF hour.t = "number" /\ minute.t = "number"
  THEN Num((hour.n * 60 + minute.n) * 60)
  ELSE NaN

\* (now - jobTime) / (1000 * 60), kept exact as a number of seconds.
delayMinutes(nowSec, jobTime) ==
  IF jobTime.t = "number" THEN Num(nowSec - jobTime.n) ELSE NaN

\* Variant: the comparison made strict (delayMinutes < runJobPassed).
DelayBelow(delay, minutes) == delay.t = "number" /\ delay.n < 60 * minutes

\* Variant: only a time that has already passed qualifies for catch-up.
DelayPassedWithin(delay, minutes) ==
  delay.t = "number" /\ delay.n >= 0 /\ delay.n <= 60 * minutes

\* Variant: every time that has passed is caught up, and none still to come.
DelayPassed(delay, minutes) == delay.t = "number" /\ delay.n >= 0

\* delayMinutes <= runJobPassed (runJobPassed in minutes); NaN compares false.
DelayWithin(delay, minutes) == delay.t = "number" /\ delay.n <= 60 * minutes

(***************************************************************************)
(* Timers handed to node-schedule.                                         *)
(***************************************************************************)
NoTimer == [kind |-> "none", expr |-> <<>>, hour |-> Undefined, minute |-> Undefined]

\* schedule.scheduleJob(`*/${durationInMins} * * * *`, ...): the minute field.
CronTimer(durationInMins) ==
  [kind |-> "cron", expr |-> <<"*", "/">> \o TemplateText(durationInMins),
   hour |-> Undefined, minute |-> Undefined]

\* schedule.scheduleJob({ hour, minute }, ...)
RuleTimer(hour, minute) ==
  [kind |-> "rule", expr |-> <<>>, hour |-> hour, minute |-> minute]

\* The step of a cron minute field */n; 0 when the field is not of that form.
CronStep(expr) ==
  IF Len(expr) > 2 /\ expr[1] = "*" /\ expr[2] = "/"
     /\ \A i \in 3..Len(expr) : IsDigit(expr[i])
  THEN DecimalValue(SubSeq(expr, 3, Len(expr)))
  ELSE 0

\* Whether a timer fires at minute t (minutes after the startup day's midnight).
TimerMatches(tm, t) ==
  CASE tm.kind = "cron" -> CronStep(tm.expr) >= 1 /\ (t % 60) % CronStep(tm.expr) = 0
    [] tm.kind = "rule" ->
         /\ tm.hour.t = "number" /\ tm.minute.t = "number"
         /\ (t \div 60) % 24 = tm.hour.n
         /\ t % 60 = tm.minute.n
    [] OTHER -> FALSE

(***************************************************************************)
(* Execution modes, recorded when scheduleJobs activates them.             *)
(***************************************************************************)
Recurring(interval) ==
  [mode |-> "Recurring", interval |-> interval, hour |-> Undefined, minute |-> Undefined]

ImmediateOnce ==
  [mode |-> "ImmediateOnce", interval |-> Undefined, hour |-> Undefined, minute |-> Undefined]

ScheduledOnce(hour, minute) ==
  [mode |-> "ScheduledOnce", interval |-> Undefined, hour |-> hour, minute |-> minute]

(***************************************************************************)
(* Firings: one record per execution of jobTask, in start order.           *)
(*   pc       where the firing is suspended: "token" (getCognitoToken's    *)
(*            post), "fetch" (fetchData's request), "render", "upload",    *)
(*            "send" (a delivery attempt in flight), "backoff" (the        *)
(*            setTimeout between attempts), "done", "failed" (the error    *)
(*            was caught and logged by jobTask)                            *)
(*   retries  the `retries` argument of the current sendWhatsAppMessage    *)
(*   attempts delivery posts made so far                                   *)
(*   waits    the delays (ms) handed to setTimeout so far                  *)
(*   failFirst how many of the first delivery posts the gateway rejects    *)
(*            (environment; -1 until the first post resolves)              *)
(*   media    whose rendering the upload read from the shared file         *)
(*   rows, cols the shape of the fetched result (-1 until fetched)         *)
(*   calls    how many times each step of the pipeline was invoked         *)
(*   failedAt the step whose error ended the firing                        *)
(*   elapsed  how many of the backoff timeouts have resolved               *)
(*   sent     the delivery posts made so far: request body and `retries`   *)
(***************************************************************************)
NoCalls == [token |-> 0, fetch |-> 0, render |-> 0, upload |-> 0]

NewFiring(j, t) ==
  [job |-> j, at |-> t, trigger |-> "timer", pc |-> "token", form |-> "none",
   retries |-> 0, attempts |-> 0, waits |-> <<>>, failFirst |-> -1, media |-> 0,
   rows |-> -1, cols |-> -1, calls |-> NoCalls, failedAt |-> "none",
   elapsed |-> 0, sent |-> <<>>]

\* The fetched result's shape: <<row count, column count of the first row>>.
DataShapes == {<<0, 0>>, <<1, 1>>, <<3, 2>>, <<4, 1>>}

Retrying(v) == v # "scheduler.js"

JobIds == 1..Len(jobConfig)

StartupDone == idx > Len(jobConfig)

(***************************************************************************)
(* scheduleJobs: one iteration of jobConfig.forEach. The loop is           *)
(* synchronous, so nothing else runs until it has ended; an exception      *)
(* thrown by an iteration leaves scheduleJobs and ends the process.        *)
(***************************************************************************)
\* Variant: the interval must exceed the ignore threshold.
RecurrenceAboveThreshold(durationInMins, ignore) ==
  Truthy(durationInMins) /\ Number(durationInMins).t = "number"
  /\ Number(durationInMins).n > ignore

\* durationInMins && durationInMins >= ignoreFrequency
RecurrenceHonoured(durationInMins, ignore) ==
  Truthy(durationInMins) /\ GreaterEq(durationInMins, ignore)

\* Variant: the iteration awaits the job body it has started.
AwaitedBodies(fs) == {i \in 1..Len(fs) : fs[i].pc \notin {"done", "failed"}}

\* The firings an iteration waits for before the loop moves on: none, the
\* promise jobTask(...) returns is dropped.
Awaited(fs) == {}

\* The mode one iteration activates for a job whose jobTimes is a string.
Classify(job, nowSec, ignore, passed) ==
  LET fields == split(job.jobTimes.s, ":")
      hour == Destructure(fields, 1)
      minute == Destructure(fields, 2)
      delay == delayMinutes(nowSec, jobTimeOf(hour, minute))
  IN IF RecurrenceHonoured(job.durationInMins, ignore)
       THEN Recurring(job.durationInMins)
     ELSE IF DelayWithin(delay, passed)
       THEN ImmediateOnce
     ELSE ScheduledOnce(hour, minute)

\* Variant: a job run at startup is also put on an hourly timer.
TimerOfHourlyAfterRun(m) ==
  CASE m.mode = "Recurring" -> CronTimer(m.interval)
    [] m.mode = "ScheduledOnce" -> RuleTimer(m.hour, m.minute)
    [] OTHER -> CronTimer(Num(60))

\* The timer each mode registers.
TimerOf(m) ==
  CASE m.mode = "Recurring" -> CronTimer(m.interval)
    [] m.mode = "ScheduledOnce" -> RuleTimer(m.hour, m.minute)
    [] OTHER -> NoTimer

scheduleJobs ==
  /\ proc = "running"
  /\ idx <= Len(jobConfig)
  /\ Awaited(firings) = {}
  /\ LET job == jobConfig[idx] IN
       IF job.jobTimes.t # "string"
       THEN \* jobTimes.split throws a TypeError out of forEach
            /\ proc' = "crashed"
            /\ UNCHANGED <<idx, activated, timers, firings>>
       ELSE LET m == Classify(job, now, ignoreFrequency, runJobPassed) IN
            /\ idx' = idx + 1
            /\ activated' = [activated EXCEPT ![idx] = Append(@, m)]
            /\ timers' = [timers EXCEPT ![idx] = TimerOf(m)]
            /\ firings' = IF m.mode = "ImmediateOnce"
                          THEN Append(firings,
                                      [NewFiring(idx, clock) EXCEPT !.trigger = "immediate"])
                          ELSE firings
            /\ UNCHANGED proc
  /\ UNCHANGED <<config, clock, file>>

(***************************************************************************)
(* Timer callbacks: () => jobTask(...). The clock moves to the next minute *)
(* at which a registered timer matches and every matching timer starts a   *)
(* firing of its job (in registration order).                              *)
(***************************************************************************)
\* Variant: a rule that fires every second day.
MinutesPerTwoDays == 48 * 60

MinutesPerDay == 24 * 60

\* The next minute after c at which the timer fires; 0 when it never does.
\* A cron step n matches the minutes 0, n, 2n, ... below 60 of every hour.
NextMatch(tm, c) ==
  CASE tm.kind = "cron" /\ CronStep(tm.expr) >= 1 ->
         LET n == CronStep(tm.expr)
             inHour == (((c % 60) \div n) + 1) * n
         IN (c - (c % 60)) + (IF inHour < 60 THEN inHour ELSE 60)
    [] tm.kind = "rule" /\ tm.hour.t = "number" /\ tm.minute.t = "number"
       /\ tm.hour.n \in 0..23 /\ tm.minute.n \in 0..59 ->
         LET today == (c - (c % MinutesPerDay)) + tm.hour.n * 60 + tm.minute.n
         IN IF today > c THEN today ELSE today + MinutesPerDay
    [] OTHER -> 0

Upcoming == {NextMatch(timers[j], clock) : j \in JobIds} \ {0}

NextInstant == CHOOSE t \in Upcoming : \A u \in Upcoming : t <= u

\* Variant: a tick is dropped while an earlier firing of the job is running.
DueUnlessRunning(t) ==
  {j \in JobIds : /\ TimerMatches(timers[j], t)
                  /\ \A i \in 1..Len(firings) :
                       firings[i].job = j => firings[i].pc \in {"done", "failed"}}

\* The jobs whose timer ticks at minute t: each callback calls jobTask.
Due(t) == {j \in JobIds : TimerMatches(timers[j], t)}

RECURSIVE StartAll(_, _, _)
StartAll(js, t, started) ==
  IF js = {} THEN started
  ELSE LET j == CHOOSE k \in js : \A m \in js : k <= m
       IN StartAll(js \ {j}, t, Append(started, NewFiring(j, t)))

TimerFires ==
  /\ proc = "running"
  /\ StartupDone
  /\ Upcoming # {}
  /\ LET t == NextInstant
         due == Due(t)
     IN /\ Len(firings) + Cardinality(due) <= MaxFirings
        /\ clock' = t
        /\ firings' = StartAll(due, t, firings)
  /\ UNCHANGED <<config, idx, proc, activated, timers, file>>

(***************************************************************************)
(* jobTask: try { await processData(...) } catch (error) { logger.error }  *)
(***************************************************************************)
\* Variant: jobTask without its catch; the rejection is unhandled and ends
\* the process.
jobTaskRethrow(p) == "crashed"

\* What an error thrown inside processData does to the process: jobTask's
\* catch logs it, the process goes on.
jobTaskCatch(p) == p

\* Variant: `retries` kept in one module-level counter all sequences share.
StepSharingCounter(i, f) ==
  /\ firings' = [k \in 1..Len(firings) |->
                   IF k = i THEN f ELSE [firings[k] EXCEPT !.retries = f.retries]]
  /\ proc' = IF f.pc = "failed" THEN jobTaskCatch(proc) ELSE proc

\* A firing resumes and runs to its next await: only its own record (its
\* own arguments and locals, `retries` among them) changes.
Step(i, f) ==
  /\ firings' = [firings EXCEPT ![i] = f]
  /\ proc' = IF f.pc = "failed" THEN jobTaskCatch(proc) ELSE proc

\* A suspended firing resumes only when the call stack is empty: after the
\* synchronous forEach has ended (or while it waits for that firing).
Live(i, at) ==
  /\ proc = "running"
  /\ i \in 1..Len(firings)
  /\ StartupDone \/ i \in Awaited(firings)
  /\ firings[i].pc = at

\* A step of the pipeline is invoked.
Called(f, step) == [f EXCEPT !.calls[step] = @ + 1]

\* Variant: the failed step is tried again.
RetryStep(f, step) == [f EXCEPT !.pc = step]

\* catch (error) { logger.error(...); throw error; }: the error of a step
\* goes up to processData and jobTask, the firing ends.
Abort(f, step) == [f EXCEPT !.pc = "failed", !.failedAt = step]

\* await axios.post(COGNITO_TOKEN_URL): resolves or throws.
getCognitoToken(i) ==
  /\ Live(i, "token")
  /\ LET f == Called(firings[i], "token") IN
       \/ Step(i, [f EXCEPT !.pc = "fetch"])
       \/ Step(i, Abort(f, "token"))
  /\ UNCHANGED <<config, idx, activated, timers, clock, file>>

\* if (data.length < 4 && Object.keys(data[0]).length < 2): "text", "doc",
\* or "throws" when data[0] is undefined and its keys are read.
FormOf(v, rows, cols) ==
  IF v = "scheduler.js"
  THEN IF rows < 4 /\ (IF rows > 0 THEN cols ELSE 0) < 2 THEN "text" ELSE "doc"
  ELSE IF rows < 4
       THEN IF rows = 0 THEN "throws" ELSE IF cols < 2 THEN "text" ELSE "doc"
       ELSE "doc"

\* The request of fetchData resolves with data (or throws); processData then
\* picks the form and starts the delivery post or the rendering.
\* In scheduler.js the document branch throws a ReferenceError (fs is not
\* imported) as soon as sendWhatsappMessage(htmlData, true) starts rendering.
fetchData(i) ==
  /\ Live(i, "fetch")
  /\ LET f == Called(firings[i], "fetch") IN
       \/ Step(i, Abort(f, "fetch"))
       \/ \E shape \in results :
            LET form == FormOf(variant, shape[1], shape[2])
                g == [f EXCEPT !.form = form, !.rows = shape[1], !.cols = shape[2]]
            IN Step(i, CASE form = "text" -> [g EXCEPT !.pc = "send"]
                         [] form = "doc" /\ variant # "scheduler.js" ->
                              [g EXCEPT !.pc = "render"]
                         [] form = "doc" -> Abort(Called(g, "render"), "render")
                         [] OTHER -> Abort(g, "form"))
  /\ UNCHANGED <<config, idx, activated, timers, clock, file>>

\* createPdf / saveTableAsJpeg: render, then fs.writeFileSync to the fixed
\* path (data.pdf, table.jpg) and the upload starts. A rendering error of
\* createPdf ends the firing; saveTableAsJpeg logs its error (raised before
\* or after the file was written) and returns undefined, and
\* uploadFileToBagAChat(groupId, undefined) then throws before any request.
createPdf(i) ==
  /\ Live(i, "render")
  /\ LET f == Called(firings[i], "render") IN
       \/ /\ Step(i, [f EXCEPT !.pc = "upload"])
          /\ file' = i
       \/ /\ variant # "scheduler.mjs"
          /\ Step(i, Abort(f, "render"))
          /\ UNCHANGED file
       \/ /\ variant = "scheduler.mjs"
          /\ Step(i, Abort(Called(f, "upload"), "upload"))
          /\ file' \in {file, i}
  /\ UNCHANGED <<config, idx, activated, timers, clock>>

\* uploadFileToBagAChat: the form streams the file as it is on disk, the post
\* resolves with the media URL or throws.
uploadFileToBagAChat(i) ==
  /\ Live(i, "upload")
  /\ LET f == Called(firings[i], "upload") IN
       \/ Step(i, [f EXCEPT !.pc = "send", !.media = file])
       \/ Step(i, Abort(f, "upload"))
  /\ UNCHANGED <<config, idx, activated, timers, clock, file>>

(***************************************************************************)
(* sendWhatsAppMessage(groupId, message, pdfPath, mediaUrl, retries = 0)   *)
(***************************************************************************)
\* Variant: a linear backoff.
LinearBackoffDelay(retries) == (retries + 1) * 1000

\* const delay = Math.pow(2, retries) * 1000
BackoffDelay(retries) == (2 ^ retries) * 1000

\* Variant: one retry more than the budget.
MayRetryInclusive(v, retries, maxRetries) == Retrying(v) /\ retries <= maxRetries

\* if (retries < MAX_RETRIES); scheduler.js rethrows at once.
MayRetry(v, retries, maxRetries) == Retrying(v) /\ retries < maxRetries

\* The file name the rendering is written to.
ArtifactName(v) == IF v = "scheduler.mjs" THEN "table.jpg" ELSE "data.pdf"

\* requestData: the body of the delivery post, built from the arguments. The
\* text message is made of the fetched rows, the document one is a title.
requestData(v, f) ==
  [conversationname |-> f.job,
   message |-> IF f.form = "text" THEN <<f.rows, f.cols>> ELSE <<>>,
   mediaurl |-> f.media,
   medianame |-> IF f.form = "doc" THEN ArtifactName(v) ELSE ""]

\* Variant: the timeout is armed but not awaited; the next call is made at once.
BackoffNotAwaited(f, delay) ==
  [f EXCEPT !.pc = "send", !.retries = @ + 1, !.waits = Append(@, delay)]

\* await new Promise(resolve => setTimeout(resolve, delay))
AwaitBackoff(f, delay) == [f EXCEPT !.pc = "backoff", !.waits = Append(@, delay)]

\* Variant: the retry drops the media URL.
RetryCallWithoutMedia(f) == [f EXCEPT !.pc = "send", !.retries = @ + 1, !.media = 0]

\* return sendWhatsAppMessage(groupId, message, pdfPath, mediaUrl, retries + 1)
RetryCall(f) == [f EXCEPT !.pc = "send", !.retries = @ + 1]

\* The delivery post resolves or throws; on an error either setTimeout is
\* armed with the backoff delay or the error is rethrown to jobTask.
sendWhatsAppMessage(i) ==
  /\ Live(i, "send")
  /\ \E k \in 0..(MAX_RETRIES + 1) :
       LET f == firings[i]
           failFirst == IF f.attempts = 0 THEN k ELSE f.failFirst
           g == [f EXCEPT !.attempts = @ + 1, !.failFirst = failFirst,
                          !.sent = Append(@, [request |-> requestData(variant, f),
                                              retries |-> f.retries])]
       IN /\ f.attempts > 0 => k = f.failFirst
          /\ IF g.attempts > failFirst
             THEN Step(i, [g EXCEPT !.pc = "done"])
             ELSE IF MayRetry(variant, f.retries, MAX_RETRIES)
             THEN Step(i, AwaitBackoff(g, BackoffDelay(f.retries)))
             ELSE Step(i, Abort(g, "send"))
  /\ UNCHANGED <<config, idx, activated, timers, clock, file>>

\* The setTimeout resolves: return sendWhatsAppMessage(..., retries + 1).
backoffElapsed(i) ==
  /\ Live(i, "backoff")
  /\ Step(i, RetryCall([firings[i] EXCEPT !.elapsed = @ + 1]))
  /\ UNCHANGED <<config, idx, activated, timers, clock, file>>

(***************************************************************************)
(* Configurations and job registries.                                      *)
(***************************************************************************)
Variants == {"part_000", "scheduler.mjs", "scheduler.js"}

\* jobConfig.csv yields every field as text; the jobConfig modules hold
\* numbers, and leave out what is absent.
IntervalValue(v, k) == IF v = "scheduler.mjs" THEN Str(DecimalDigits(k)) ELSE Num(k)

AbsentIntervals(v) == IF v = "scheduler.mjs" THEN {Undefined, Str(<<>>)} ELSE {Undefined}

Job(jobTimes, durationInMins) == [jobTimes |-> jobTimes, durationInMins |-> durationInMins]

Registries(pool) == UNION {[1..n -> pool] : n \in 1..MaxJobs}

At(h, m, sec) == (h * 60 + m) * 60 + sec

InitState(v, r, ignore, passed, registry, nowSec, shapes) ==
  /\ variant = v
  /\ results = shapes
  /\ MAX_RETRIES = r
  /\ ignoreFrequency = ignore
  /\ runJobPassed = passed
  /\ jobConfig = registry
  /\ now = nowSec
  /\ idx = 1
  /\ proc = "running"
  /\ activated = [j \in 1..Len(registry) |-> <<>>]
  /\ timers = [j \in 1..Len(registry) |-> NoTimer]
  /\ clock = nowSec \div 60
  /\ firings = <<>>
  /\ file = 0

\* Startup scenarios of the decision engine.
ScheduleTimes ==
  {Str(<<"0", "9", ":", "0", "0">>), Str(<<"2", "5", ":", "0", "0">>),
   Str(<<"x", "x", ":", "0", "0">>), Undefined}

SchedulePool(v) ==
  {Job(t, d) : t \in ScheduleTimes,
               d \in AbsentIntervals(v) \cup {IntervalValue(v, k) : k \in {0, 30, 60}}}

ScheduleNows == {At(8, 50, 0), At(9, 10, 0), At(9, 15, 0), At(9, 15, 30), At(9, 30, 0)}

InitSchedule ==
  \E v \in Variants, ignore \in {0, 30}, passed \in {-30, 15}, nowSec \in ScheduleNows :
    \E registry \in Registries(SchedulePool(v)) :
      InitState(v, 1, ignore, passed, registry, nowSec, DataShapes)

\* Scenarios of the running system: two daily jobs and a recurring one.
TimerPool(v) ==
  {Job(Str(<<"0", "9", ":", "0", "0">>), Undefined),
   Job(Str(<<"0", "8", ":", "0", "0">>), Undefined),
   Job(Str(<<"0", "9", ":", "0", "0">>), IntervalValue(v, 45))}

\* Registries of one or two of them.
TimerRegistries(v) == UNION {[1..n -> TimerPool(v)] : n \in 1..2}

TimerNows == {At(9, 10, 0), At(9, 30, 0)}

\* The results of the timer scenarios: a short text report.
TimerResults == {<<1, 1>>}

\* Scenarios of one delivery sequence: a job run at startup, every retry budget.
DeliveryJob == Job(Str(<<"0", "9", ":", "0", "0">>), Undefined)

\* Scenarios of two firings running side by side: two jobs run at startup.
ConcurrentJobs == <<DeliveryJob, DeliveryJob>>

\* Scenarios of a startup before a job is due, with a catch-up threshold of
\* either sign.
EarlyNow == At(8, 50, 0)

EarlyThresholds == {-30, 15}

Init ==
  \E v \in Variants :
    \/ \E registry \in TimerRegistries(v), nowSec \in TimerNows :
         InitState(v, 1, 30, 15, registry, nowSec, TimerResults)
    \/ \E registry \in TimerRegistries(v), passed \in EarlyThresholds :
         InitState(v, 1, 30, passed, registry, EarlyNow, TimerResults)
    \/ \E r \in 0..MaxRetryCount :
         InitState(v, r, 30, 15, <<DeliveryJob>>, At(9, 10, 0), DataShapes)
    \/ InitState(v, 1, 30, 15, ConcurrentJobs, At(9, 10, 0), DataShapes)

Next ==
  \/ scheduleJobs
  \/ TimerFires
  \/ \E i \in 1..MaxFirings :
       \/ getCognitoToken(i)
       \/ fetchData(i)
       \/ createPdf(i)
       \/ uploadFileToBagAChat(i)
       \/ sendWhatsAppMessage(i)
       \/ backoffElapsed(i)

Spec == Init /\ [][Next]_vars

\* Every delivery post resolves or is rejected (the request has a timeout)
\* and every armed setTimeout fires.
DeliveryProgress ==
  \A i \in 1..MaxFirings :
    WF_vars(sendWhatsAppMessage(i)) /\ WF_vars(backoffElapsed(i))

SpecDelivery == Init /\ [][Next]_vars /\ DeliveryProgress

NextSchedule == scheduleJobs

SpecSchedule == InitSchedule /\ [][NextSchedule]_vars

(***************************************************************************)
(* Delivery retry protocol.                                                *)
(***************************************************************************)
Firing(i) == firings[i]

FiringIds == 1..Len(firings)

\* The delivery action of firing i rejects every post the budget allows.
AlwaysFails(i) == Firing(i).failFirst = MAX_RETRIES + 1

\* C1: a delivery sequence whose action fails on every attempt makes exactly
\* MAX_RETRIES + 1 posts, and the failure reaches the caller (jobTask) only
\* after post number MAX_RETRIES + 1 has failed, never after an earlier one.
C1_AlwaysFailingExhaustsBudget ==
  \A i \in FiringIds :
    AlwaysFails(i) =>
      /\ Firing(i).attempts <= MAX_RETRIES + 1
      /\ Firing(i).pc = "failed" => Firing(i).attempts = MAX_RETRIES + 1

\* C2: a delivery sequence whose action fails on its first k <= MAX_RETRIES
\* posts and accepts the next one makes exactly k + 1 posts, returns success
\* to the caller and makes no post after the accepted one.
C2_SucceedsAfterKFailures ==
  \A i \in FiringIds :
    Firing(i).failFirst \in 0..MAX_RETRIES =>
      /\ Firing(i).attempts <= Firing(i).failFirst + 1
      /\ Firing(i).pc # "failed"
      /\ Firing(i).pc = "done" => Firing(i).attempts = Firing(i).failFirst + 1

(***************************************************************************)
(* Scheduling decision engine: the terms of the design.                    *)
(***************************************************************************)
\* A well-formed timeOfDay: the text HH:MM with HH in 00..23, MM in 00..59.
WellFormedTime(v) ==
  /\ v.t = "string"
  /\ Len(v.s) = 5
  /\ v.s[3] = ":"
  /\ \A p \in {1, 2, 4, 5} : IsDigit(v.s[p])
  /\ 10 * DigitVal(v.s[1]) + DigitVal(v.s[2]) <= 23
  /\ 10 * DigitVal(v.s[4]) + DigitVal(v.s[5]) <= 59

HourOf(v) == 10 * DigitVal(v.s[1]) + DigitVal(v.s[2])

MinuteOf(v) == 10 * DigitVal(v.s[4]) + DigitVal(v.s[5])

\* recurrenceIntervalMinutes: absent when undefined or an empty field.
IntervalAbsent(d) == d.t = "undefined" \/ (d.t = "string" /\ d.s = <<>>)

\* The minutes an interval denotes, as a number or as the text of the job
\* file; -1 when it denotes none.
IntervalMinutes(d) ==
  CASE d.t = "number" -> d.n
    [] d.t = "string" /\ d.s # <<>> /\ (\A p \in 1..Len(d.s) : IsDigit(d.s[p])) ->
         DecimalValue(d.s)
    [] OTHER -> -1

\* Present (a positive integer) and at least the ignore threshold.
QualifyingRecurrence(job) ==
  IntervalMinutes(job.durationInMins) >= 1
  /\ IntervalMinutes(job.durationInMins) >= ignoreFrequency

\* Without a qualifying recurrence: absent, or below the ignore threshold.
NoQualifyingRecurrence(job) ==
  IntervalAbsent(job.durationInMins)
  \/ (IntervalMinutes(job.durationInMins) >= 0
      /\ IntervalMinutes(job.durationInMins) < ignoreFrequency)

\* now - today's timeOfDay, in seconds.
DelaySeconds(job) == now - (HourOf(job.jobTimes) * 60 + MinuteOf(job.jobTimes)) * 60

Classified(j) == activated[j] # <<>>

ModeOf(j) == activated[j][1]

FiringsOf(j) == {i \in FiringIds : Firing(i).job = j}

\* C3: a job whose interval is present and >= ignoreThreshold is classified
\* Recurring(interval) whatever its delay: a periodic timer of that step is
\* registered and the job is not run at startup.
C3_RecurringRule ==
  \A j \in JobIds :
    (Classified(j) /\ QualifyingRecurrence(jobConfig[j])) =>
      /\ ModeOf(j) = Recurring(jobConfig[j].durationInMins)
      /\ timers[j].kind = "cron"
      /\ CronStep(timers[j].expr) = IntervalMinutes(jobConfig[j].durationInMins)
      /\ FiringsOf(j) = {}

\* C3 witness: interval 60 at ignoreThreshold 30, and interval 30 at the
\* threshold itself, classified at a time when the delay is within catch-up.
C3_Witness ==
  /\ ignoreFrequency = 30
  /\ runJobPassed = 15
  /\ now = At(9, 10, 0)
  /\ Len(jobConfig) = 2
  /\ \A j \in JobIds : Classified(j) /\ ModeOf(j).mode = "Recurring"
                       /\ WellFormedTime(jobConfig[j].jobTimes)
                       /\ DelaySeconds(jobConfig[j]) = 600
  /\ IntervalMinutes(jobConfig[1].durationInMins) = 60
  /\ IntervalMinutes(jobConfig[2].durationInMins) = 30

\* C4: a job without a qualifying recurrence is classified ImmediateOnce
\* exactly when its delay is <= catchUpThreshold, and otherwise
\* ScheduledOnce with its own hour and minute.
C4_TimeOfDayRule ==
  \A j \in JobIds :
    (Classified(j) /\ WellFormedTime(jobConfig[j].jobTimes)
       /\ NoQualifyingRecurrence(jobConfig[j])) =>
      IF DelaySeconds(jobConfig[j]) <= 60 * runJobPassed
      THEN ModeOf(j) = ImmediateOnce /\ FiringsOf(j) # {} /\ timers[j] = NoTimer
      ELSE /\ ModeOf(j) = ScheduledOnce(Num(HourOf(jobConfig[j].jobTimes)),
                                        Num(MinuteOf(jobConfig[j].jobTimes)))
           /\ timers[j] = RuleTimer(Num(HourOf(jobConfig[j].jobTimes)),
                                    Num(MinuteOf(jobConfig[j].jobTimes)))
           /\ FiringsOf(j) = {}

\* C4 witness: catchUpThreshold 15 and timeOfDay 09:00; a startup at 09:15:30
\* (delay 15.5 minutes) has registered the daily timer (9, 0).
C4_Witness ==
  /\ runJobPassed = 15
  /\ now = At(9, 15, 30)
  /\ Len(jobConfig) = 1
  /\ Classified(1)
  /\ NoQualifyingRecurrence(jobConfig[1])
  /\ jobConfig[1].jobTimes = Str(<<"0", "9", ":", "0", "0">>)
  /\ ModeOf(1) = ScheduledOnce(Num(9), Num(0))

\* The forEach of scheduleJobs has ended, normally or by an exception.
StartupEnded == StartupDone \/ proc = "crashed"

\* A job the data model allows: a well-formed timeOfDay and an interval
\* that is absent, zero or a positive integer.
WellFormedJob(job) ==
  /\ WellFormedTime(job.jobTimes)
  /\ IntervalAbsent(job.durationInMins) \/ IntervalMinutes(job.durationInMins) >= 0

\* The activations performed for job j: a periodic timer registered, a daily
\* timer registered, the job body invoked at startup.
Activations(j) ==
  (IF timers[j].kind = "cron" THEN 1 ELSE 0)
  + (IF timers[j].kind = "rule" THEN 1 ELSE 0)
  + Cardinality({i \in FiringsOf(j) : Firing(i).trigger = "immediate"})

\* C5: once startup classification has ended, every well-formed job of the
\* registry has had exactly one of the three activations performed, and no
\* job is classified twice.
C5_ExactlyOneModeOnce ==
  \A j \in JobIds :
    /\ Len(activated[j]) <= 1
    /\ (StartupEnded /\ WellFormedJob(jobConfig[j])) =>
         Len(activated[j]) = 1 /\ Activations(j) = 1

\* timeOfDay missing, non-numeric or out of range.
MalformedTime(v) == ~WellFormedTime(v)

\* C6: a job with a malformed timeOfDay gets no timer that ever fires and no
\* firing, and every other (well-formed) job of the registry is still
\* classified and activated.
C6_MalformedTimeIsolated ==
  \A j \in JobIds :
    MalformedTime(jobConfig[j].jobTimes) =>
      /\ NextMatch(timers[j], clock) = 0
      /\ FiringsOf(j) = {}
      /\ StartupEnded =>
           \A k \in JobIds \ {j} :
             WellFormedJob(jobConfig[k]) => Classified(k) /\ Activations(k) = 1

\* C10 as stated: every job without a qualifying recurrence whose timeOfDay
\* is still to come today is classified ImmediateOnce.
C10_FutureRunsImmediately ==
  \A j \in JobIds :
    (Classified(j) /\ WellFormedTime(jobConfig[j].jobTimes)
       /\ NoQualifyingRecurrence(jobConfig[j])
       /\ DelaySeconds(jobConfig[j]) < 0) =>
      ModeOf(j) = ImmediateOnce

\* C10 amended: when catchUpThreshold >= 0, every job without a qualifying
\* recurrence whose timeOfDay is still to come today is classified
\* ImmediateOnce and its body is invoked at startup, with no timer.
C10_FutureRunsImmediatelyIfThresholdNonNegative ==
  \A j \in JobIds :
    (runJobPassed >= 0
       /\ Classified(j) /\ WellFormedTime(jobConfig[j].jobTimes)
       /\ NoQualifyingRecurrence(jobConfig[j])
       /\ DelaySeconds(jobConfig[j]) < 0) =>
      /\ ModeOf(j) = ImmediateOnce
      /\ \E i \in FiringsOf(j) : Firing(i).trigger = "immediate" /\ Firing(i).at = clock
      /\ timers[j] = NoTimer

\* C10 witness: started at 08:50 with catchUpThreshold 15, the 09:00 job has
\* been run at once.
C10_Witness ==
  /\ runJobPassed = 15
  /\ now = At(8, 50, 0)
  /\ \E j \in JobIds :
       /\ jobConfig[j].jobTimes = Str(<<"0", "9", ":", "0", "0">>)
       /\ NoQualifyingRecurrence(jobConfig[j])
       /\ Classified(j)
       /\ ModeOf(j) = ImmediateOnce
       /\ FiringsOf(j) # {}

(***************************************************************************)
(* Failure containment, backoff and the recurring period.                  *)
(***************************************************************************)
\* C7: an error in a firing is caught at jobTask: the process keeps running
\* and every timer stays registered as scheduleJobs registered it, so other
\* jobs and later firings of the same job still fire.
C7_FailureContained ==
  (\E i \in FiringIds : Firing(i).pc = "failed") =>
    /\ proc = "running"
    /\ \A j \in JobIds : Classified(j) /\ timers[j] = TimerOf(ModeOf(j))

\* C7 witness: a firing of a job has failed after its retry budget was used
\* up, and a later firing of the same job has run to completion.
C7_Witness ==
  \E i, k \in FiringIds :
    /\ Firing(i).job = Firing(k).job
    /\ Firing(i).at < Firing(k).at
    /\ Firing(i).pc = "failed"
    /\ Firing(i).attempts = MAX_RETRIES + 1
    /\ Firing(i).attempts > 1
    /\ Firing(k).pc = "done"

RECURSIVE SumOf(_)
SumOf(seq) == IF seq = <<>> THEN 0 ELSE seq[1] + SumOf(Tail(seq))

\* C8: the wait after the failure of attempt i (0-indexed) is 2^i seconds; a
\* sequence that has used its whole budget of MAX_RETRIES retries has waited
\* 2^MAX_RETRIES - 1 seconds in all, and no wait follows the last failure.
C8_BackoffSchedule ==
  \A i \in FiringIds :
    /\ \A n \in 1..Len(Firing(i).waits) : Firing(i).waits[n] = 1000 * 2 ^ (n - 1)
    /\ Len(Firing(i).waits) <= Firing(i).attempts
    /\ (Firing(i).pc \in {"done", "failed"} /\ Firing(i).attempts >= 1) =>
         Len(Firing(i).waits) = Firing(i).attempts - 1
    /\ (Firing(i).pc = "failed" /\ Firing(i).attempts = MAX_RETRIES + 1) =>
         SumOf(Firing(i).waits) = 1000 * (2 ^ MAX_RETRIES - 1)

\* C8 witness: maxRetries 3, every post rejected: 4 attempts, waits of 1, 2
\* and 4 seconds, then the failure.
C8_Witness ==
  /\ MAX_RETRIES = 3
  /\ \E i \in FiringIds :
       /\ Firing(i).pc = "failed"
       /\ Firing(i).attempts = 4
       /\ Firing(i).waits = <<1000, 2000, 4000>>

\* C9: any two consecutive firings of a job classified Recurring(n) are
\* exactly n minutes apart.
C9_RecurringPeriod ==
  \A j \in JobIds :
    (Classified(j) /\ ModeOf(j).mode = "Recurring") =>
      \A i, k \in FiringsOf(j) :
        (i < k /\ \A m \in FiringsOf(j) : ~(i < m /\ m < k)) =>
          Firing(k).at - Firing(i).at = IntervalMinutes(ModeOf(j).interval)

(***************************************************************************)
(* Daily and startup-only jobs over the life of the process.               *)
(***************************************************************************)
\* The minutes up to c at which the wall clock shows hour:minute and which
\* come after the startup instant.
OccurrencesSince(hour, minute, c) ==
  {t \in {d * 24 * 60 + hour * 60 + minute : d \in 0..(c \div (24 * 60))} :
     t * 60 > now /\ t <= c}

\* C11: a job classified ScheduledOnce(hour, minute) has fired exactly once at
\* every occurrence of hour:minute since startup, day after day, and at no
\* other time; its timer is still registered after it has fired.
C11_ScheduledOnceFiresDaily ==
  \A j \in JobIds :
    (Classified(j) /\ ModeOf(j).mode = "ScheduledOnce"
       /\ WellFormedTime(jobConfig[j].jobTimes)) =>
      LET hour == HourOf(jobConfig[j].jobTimes)
          minute == MinuteOf(jobConfig[j].jobTimes)
          occurrences == OccurrencesSince(hour, minute, clock)
      IN /\ timers[j] = RuleTimer(Num(hour), Num(minute))
         /\ {Firing(i).at : i \in FiringsOf(j)} = occurrences
         /\ Cardinality(FiringsOf(j)) = Cardinality(occurrences)
         /\ \A i \in FiringsOf(j) : Firing(i).trigger = "timer"

\* C11 witness: a daily job has fired on two consecutive days, and its first
\* firing had run to completion before the second.
C11_Witness ==
  \E j \in JobIds :
    /\ Classified(j)
    /\ ModeOf(j).mode = "ScheduledOnce"
    /\ \E i, k \in FiringsOf(j) :
         /\ Firing(k).at = Firing(i).at + 24 * 60
         /\ Firing(i).pc = "done"
         /\ Firing(k).pc = "done"

\* C12: a job classified ImmediateOnce has no timer and, at any later time of
\* the process, exactly one firing: the one started at startup.
C12_ImmediateOnceRegistersNothing ==
  \A j \in JobIds :
    (Classified(j) /\ ModeOf(j) = ImmediateOnce) =>
      /\ timers[j].kind = "none"
      /\ NextMatch(timers[j], clock) = 0
      /\ Cardinality(FiringsOf(j)) = 1
      /\ \A i \in FiringsOf(j) :
           Firing(i).trigger = "immediate" /\ Firing(i).at = now \div 60

\* C12 witness: the process has run into the next day (another job's daily
\* timer has fired) and the job run at startup has its single, ended firing.
C12_Witness ==
  \E j \in JobIds :
    /\ Classified(j)
    /\ ModeOf(j) = ImmediateOnce
    /\ clock >= 24 * 60
    /\ \E i \in FiringsOf(j) : Firing(i).pc = "done"
    /\ \E k \in FiringIds : Firing(k).job # j /\ Firing(k).at >= 24 * 60

(***************************************************************************)
(* One delivery sequence: order of the attempts.                           *)
(***************************************************************************)
\* The delivery posts of firing i that have not resolved yet.
InFlight(i) == IF Firing(i).pc = "send" THEN 1 ELSE 0

\* C13: at most one post of a delivery sequence is in flight; while attempt
\* number a + 1 is in flight, each of the a earlier attempts has failed and
\* the backoff wait that followed it has elapsed, and while a wait is pending
\* no post is in flight.
C13_AttemptsSequential ==
  \A i \in FiringIds :
    /\ InFlight(i) <= 1
    /\ Len(Firing(i).sent) = Firing(i).attempts
    /\ Firing(i).pc = "send" =>
         /\ Firing(i).elapsed = Firing(i).attempts
         /\ Len(Firing(i).waits) = Firing(i).attempts
         /\ Firing(i).attempts > 0 => Firing(i).attempts <= Firing(i).failFirst
    /\ Firing(i).pc = "backoff" =>
         /\ InFlight(i) = 0
         /\ Firing(i).elapsed = Firing(i).attempts - 1
         /\ Len(Firing(i).waits) = Firing(i).attempts
    /\ \A n \in 1..Len(Firing(i).sent) : Firing(i).sent[n].retries = n - 1

\* C13 witness: the third attempt is in flight after two failures and two
\* elapsed waits.
C13_Witness ==
  \E i \in FiringIds :
    /\ Firing(i).pc = "send"
    /\ Firing(i).attempts = 2
    /\ Firing(i).elapsed = 2
    /\ Firing(i).waits = <<1000, 2000>>

(***************************************************************************)
(* The pipeline of one firing: artifact, retries of the steps.             *)
(***************************************************************************)
\* C14: the artifact a firing uploads (and then delivers) is the one rendered
\* from its own rows, whatever other firings do between its write and its
\* upload.
C14_NoArtifactCollision ==
  \A i \in FiringIds :
    (Firing(i).form = "doc" /\ Firing(i).pc \in {"send", "backoff", "done"}) =>
      Firing(i).media = i

\* The steps before the delivery.
PipelineSteps == {"token", "fetch", "render", "upload"}

\* C15: in one firing the token request, the fetch, the render and the upload
\* are each invoked at most once; a firing whose token request, fetch or
\* upload failed has ended there and has made no delivery post.
C15_OnlyDeliveryRetried ==
  \A i \in FiringIds :
    /\ \A step \in PipelineSteps : Firing(i).calls[step] <= 1
    /\ Firing(i).failedAt \in {"token", "fetch", "upload"} =>
         /\ Firing(i).pc = "failed"
         /\ Firing(i).attempts = 0
         /\ Firing(i).sent = <<>>
    /\ Firing(i).failedAt \in {"token", "fetch"} =>
         Firing(i).calls.render = 0 /\ Firing(i).calls.upload = 0

\* C15 witness: a firing ended by the failure of its upload, each step before
\* it invoked once, next to a delivery that was retried.
C15_Witness ==
  \E i, k \in FiringIds :
    /\ Firing(i).failedAt = "upload"
    /\ \A step \in PipelineSteps : Firing(i).calls[step] = 1
    /\ Firing(i).attempts = 0
    /\ Firing(k).attempts = 2
    /\ \A step \in PipelineSteps : Firing(k).calls[step] = 1

(***************************************************************************)
(* Absent and zero intervals.                                              *)
(***************************************************************************)
\* C16: a job (with a well-formed timeOfDay) whose interval is absent, empty
\* or zero is never classified Recurring and gets no periodic timer, whatever
\* the ignore threshold and whether the interval is a number or the text of
\* the job file.
C16_AbsentOrZeroNeverPeriodic ==
  \A j \in JobIds :
    (Classified(j) /\ WellFormedTime(jobConfig[j].jobTimes)
       /\ (IntervalAbsent(jobConfig[j].durationInMins)
           \/ IntervalMinutes(jobConfig[j].durationInMins) = 0)) =>
      ModeOf(j).mode # "Recurring" /\ timers[j].kind # "cron"

(***************************************************************************)
(* Termination of a delivery sequence.                                     *)
(***************************************************************************)
\* C17: as long as every post resolves or is rejected and every wait elapses,
\* a delivery sequence that has started ends, with success or with the
\* failure handed to the caller, and it never makes more than
\* MAX_RETRIES + 1 attempts.
C17_DeliveryTerminates ==
  /\ [](\A i \in FiringIds : Firing(i).attempts <= MAX_RETRIES + 1)
  /\ \A i \in 1..MaxFirings :
       (i \in FiringIds /\ Firing(i).pc \in {"send", "backoff"})
         ~> (i \in FiringIds /\ Firing(i).pc \in {"done", "failed"})

\* C17 witness: a sequence that ended with success on its last allowed
\* attempt, after MAX_RETRIES = 2 failures.
C17_Witness ==
  /\ MAX_RETRIES = 2
  /\ \E i \in FiringIds :
       /\ Firing(i).pc = "done"
       /\ Firing(i).failFirst = 2
       /\ Firing(i).attempts = 3

(***************************************************************************)
(* What a retry sends.                                                     *)
(***************************************************************************)
\* C18: every post of a delivery sequence carries the request of the first
\* one (target, message, media name and media URL), and from one post to the
\* next only the attempt counter changes, by exactly 1.
C18_RetriesRepeatSameAction ==
  \A i \in FiringIds :
    \A n \in 2..Len(Firing(i).sent) :
      /\ Firing(i).sent[n].request = Firing(i).sent[1].request
      /\ Firing(i).sent[n].retries = Firing(i).sent[n - 1].retries + 1

\* C18 witness: a document delivered at the third post, each post naming the
\* uploaded media.
C18_Witness ==
  \E i \in FiringIds :
    /\ Firing(i).form = "doc"
    /\ Firing(i).pc = "done"
    /\ Len(Firing(i).sent) = 3
    /\ Firing(i).sent[3].request.mediaurl # 0
    /\ Firing(i).sent[3].request.medianame = ArtifactName(variant)

(***************************************************************************)
(* Startup does not wait for job bodies.                                   *)
(***************************************************************************)
\* C19: while jobs of the registry remain to be classified, the next
\* classification step can always be taken, whatever the state of the bodies
\* already started; those bodies are still at their first request, so
\* nothing of them was waited for.
C19_ImmediateDoesNotBlock ==
  (proc = "running" /\ ~StartupDone) =>
    /\ ENABLED scheduleJobs
    /\ \A i \in FiringIds : Firing(i).pc = "token" /\ Firing(i).calls = NoCalls

\* C19 witness: the body started at startup for the first job has never got
\* past its first request, and the job after it was classified, registered
\* and has since fired and delivered.
C19_Witness ==
  /\ StartupDone
  /\ Len(jobConfig) = 2
  /\ ModeOf(1) = ImmediateOnce
  /\ \E i \in FiringsOf(1) : Firing(i).pc = "token"
  /\ ModeOf(2).mode = "Recurring"
  /\ \E k \in FiringsOf(2) : Firing(k).pc = "done"

(***************************************************************************)
(* Text or document.                                                       *)
(***************************************************************************)
\* C20: a firing that has fetched a result, empty or not, takes the textual
\* form exactly when the result has fewer than 4 rows and fewer than 2
\* columns and the document form otherwise; a text is delivered without
\* render or upload, a document after one render and one upload, with its
\* media URL.
C20_TextOrDocumentChoice ==
  \A i \in FiringIds :
    Firing(i).rows >= 0 =>
      /\ Firing(i).form =
           IF Firing(i).rows < 4 /\ Firing(i).cols < 2 THEN "text" ELSE "doc"
      /\ (Firing(i).pc = "done" /\ Firing(i).form = "text") =>
           /\ Firing(i).calls.render = 0 /\ Firing(i).calls.upload = 0
           /\ \A n \in 1..Len(Firing(i).sent) : Firing(i).sent[n].request.mediaurl = 0
      /\ (Firing(i).pc = "done" /\ Firing(i).form = "doc") =>
           /\ Firing(i).calls.render = 1 /\ Firing(i).calls.upload = 1
           /\ \A n \in 1..Len(Firing(i).sent) : Firing(i).sent[n].request.mediaurl # 0

(***************************************************************************)
(* Retry counters of different delivery sequences.                         *)
(***************************************************************************)
\* The retry state of firing k in the firings fs: counter and posts made.
RetryState(fs, k) == <<fs[k].retries, fs[k].attempts, fs[k].elapsed>>

\* A step changes the retry state of at most one sequence, and a firing that
\* starts in the step starts with a fresh one.
OwnCounterOnly ==
  /\ Cardinality({k \in FiringIds : RetryState(firings', k) # RetryState(firings, k)}) <= 1
  /\ \A k \in (Len(firings) + 1)..Len(firings') : RetryState(firings', k) = <<0, 0, 0>>

\* C21: every delivery sequence starts with its counter at 0 and keeps it
\* within 0..MAX_RETRIES; the counter counts the sequence's own elapsed
\* retries, and no step of one firing changes the counter of another
\* firing, concurrent or later.
C21_RetryBudgetsIndependent ==
  /\ [](\A i \in FiringIds :
          /\ Firing(i).retries \in 0..MAX_RETRIES
          /\ Firing(i).retries = Firing(i).elapsed
          /\ Firing(i).attempts = 0 => Firing(i).retries = 0
          /\ Firing(i).sent # <<>> => Firing(i).sent[1].retries = 0)
  /\ [][OwnCounterOnly]_vars

\* C21 witness: of two firings started together, one has used its whole
\* budget and failed while the other has made its first post only and still
\* has its counter at 0.
C21_Witness ==
  /\ MAX_RETRIES = 1
  /\ \E i, k \in FiringIds :
       /\ i # k
       /\ Firing(i).at = Firing(k).at
       /\ Firing(i).failedAt = "send"
       /\ Firing(i).retries = 1
       /\ Firing(k).pc = "backoff"
       /\ Firing(k).attempts = 1
       /\ Firing(k).retries = 0

(***************************************************************************)
(* The startup day of a daily job.                                         *)
(***************************************************************************)
\* C22: with catchUpThreshold >= 0, a job classified ScheduledOnce has a
\* timeOfDay that has already passed today; it has no firing on the day of
\* startup, and once the clock has reached its hour:minute of the following
\* day it has fired then.
C22_NoFiringOnStartupDay ==
  \A j \in JobIds :
    (runJobPassed >= 0 /\ Classified(j) /\ ModeOf(j).mode = "ScheduledOnce"
       /\ WellFormedTime(jobConfig[j].jobTimes)) =>
      LET nextDay == 24 * 60 + HourOf(jobConfig[j].jobTimes) * 60
                     + MinuteOf(jobConfig[j].jobTimes)
      IN /\ DelaySeconds(jobConfig[j]) > 0
         /\ \A i \in FiringsOf(j) : Firing(i).at >= nextDay
         /\ clock >= nextDay => \E i \in FiringsOf(j) : Firing(i).at = nextDay

\* C22 witness: started at 08:50 with catchUpThreshold 15, the 08:00 job was
\* put on its daily timer and its only firing so far is the one of 08:00 on
\* the following day.
C22_Witness ==
  /\ runJobPassed = 15
  /\ now = At(8, 50, 0)
  /\ \E j \in JobIds :
       /\ Classified(j)
       /\ ModeOf(j) = ScheduledOnce(Num(8), Num(0))
       /\ Cardinality(FiringsOf(j)) = 1
       /\ \A i \in FiringsOf(j) : Firing(i).at = 24 * 60 + 8 * 60 /\ Firing(i).pc = "done"

(***************************************************************************)
(* Timer ticks and firings.                                                *)
(***************************************************************************)
\* The minutes after startup and up to c at which the timer tm ticks.
TicksSince(tm, c) ==
  LET candidates ==
        IF tm.kind = "rule" /\ tm.hour.t = "number" /\ tm.minute.t = "number"
        THEN {d * 24 * 60 + tm.hour.n * 60 + tm.minute.n : d \in 0..(c \div (24 * 60))}
        ELSE IF tm.kind = "cron" THEN (now \div 60)..c
        ELSE {}
  IN {t \in candidates : t * 60 > now /\ t <= c /\ TimerMatches(tm, t)}

\* A tick leaves the firings already started as they are, and the firings
\* it starts begin at once, at their first request.
TickKeepsFirings ==
  /\ Len(firings') >= Len(firings)
  /\ clock' # clock =>
       /\ \A i \in FiringIds : firings'[i] = firings[i]
       /\ \A k \in (Len(firings) + 1)..Len(firings') :
            firings'[k].at = clock' /\ firings'[k].pc = "token"

\* C23: every tick of a registered timer since startup has started exactly
\* one firing of its job, whether or not earlier firings of the job had
\* ended (none skipped, none merged); a tick starts its firings at once and
\* changes no firing started before it.
C23_EveryTickStartsFiring ==
  /\ [](\A j \in JobIds :
          \A t \in TicksSince(timers[j], clock) :
            Cardinality({i \in FiringsOf(j) : Firing(i).at = t}) = 1)
  /\ [][TickKeepsFirings]_vars

\* C23 witness: a recurring job has ticked twice; the firing of the first
\* tick is still waiting in its retry backoff and the firing of the second
\* tick has started and delivered.
C23_Witness ==
  \E j \in JobIds :
    /\ Classified(j)
    /\ ModeOf(j).mode = "Recurring"
    /\ \E i, k \in FiringsOf(j) :
         /\ Firing(i).at < Firing(k).at
         /\ Firing(i).pc = "backoff"
         /\ Firing(k).pc = "done"

====
